---- MODULE Spec2Model ----
(***************************************************************************)
(* Bounded Retry Fetch: the two retryFetch(url, retries) routines of       *)
(* day13-Promises (the recursive promise version, lines 254-275, and the   *)
(* async/await loop version, lines 565-578).                               *)
(*                                                                         *)
(* One invocation of each routine is modelled; the two run concurrently    *)
(* on the single-threaded event loop, so a step of the model is one run    *)
(* of a continuation (the synchronous code between two suspension points). *)
(* The remote-call collaborator (fetch, response.json) is the environment: *)
(* it settles an outstanding operation with an outcome it chooses.         *)
(* Console output is not part of the modelled state.                       *)
(*                                                                         *)
(* The closure exercises of day15-closures-&-scope (createCounter,         *)
(* createMaxCounter, useCounter, useOnce) are modelled as the private      *)
(* variables each closure captures, with one action per call of a          *)
(* returned function; the script's own calls are one behaviour of it.      *)
(*                                                                         *)
(* The timers of the Day 11 script (src/unnamed/part_000) are modelled     *)
(* from the state its synchronous part leaves: every registered timer may  *)
(* fire next, so the behaviours include every order the host's clock can   *)
(* produce. The host is a browser: alert is defined and returns.           *)
(***************************************************************************)
EXTENDS Integers, Sequences, FiniteSets, TLC

\* ---- bounds -------------------------------------------------------------
MaxRetries == 3
\* calls of returned functions made in one behaviour of the closure exercises
MaxCalls == 5

\* ---- the environment's vocabulary ---------------------------------------
Inv == {"promise", "async"}
Retries == (-1)..MaxRetries
TransportErrors == {"Failed to fetch"}
DecodeErrors == {"Unexpected end of JSON input"}
Payloads == {"post-a", "post-b"}
BadResponse == "Bad response."

\* what fetch(url) can settle with: a rejection, or a response with a status
FetchOutcomes ==
    [kind : {"transport"}, msg : TransportErrors, ok : {FALSE}]
        \cup [kind : {"response"}, msg : {""}, ok : BOOLEAN]

\* what response.json() can settle with: the decoded body, or a rejection
JsonOutcomes ==
    [kind : {"data"}, detail : Payloads]
        \cup [kind : {"decode"}, detail : DecodeErrors]

VARIABLES
    retries,    \* retries[i]: the `retries` argument of invocation i
    pc,         \* pc[i]: "init" | "fetching" | "decoding" | "done"
    attempt,    \* attempt[i]: the attempt counter (0 before the call)
    calls,      \* calls[i]: the fetch(url) calls made, by attempt number
    pending,    \* pending[i]: attempts whose fetch promise is unsettled
    hist,       \* hist[i]: the outcome of each finished attempt, in order
    result,     \* result[i]: the promise retryFetch returned
    settles     \* settles[i]: resolve/reject/return/throw executions

retryVars == <<retries, pc, attempt, calls, pending, hist, result, settles>>

\* day15-closures-&-scope: what each closure captures, and what its calls
\* returned
VARIABLES
    maxArg,     \* createMaxCounter: the parameter max
    maxCount,   \* createMaxCounter: let count
    maxRets,    \* the values the max counter returned, in call order
    cnt,        \* cnt[c]: let count of the counter c made by createCounter()
    rets,       \* rets[c]: the values counter c returned, in call order
    ucInitial,  \* useCounter: the parameter initial
    ucStep,     \* useCounter: the parameter step
    ucCount,    \* useCounter: let count
    ucOps,      \* the inc/dec/reset calls made, in order
    called,     \* useOnce: let called
    fnRuns,     \* how many times the fn given to useOnce was invoked
    onceRets    \* what each call of the useOnce wrapper did or returned

closureVars ==
    <<maxArg, maxCount, maxRets, cnt, rets, ucInitial, ucStep, ucCount, ucOps,
      called, fnRuns, onceRets>>

\* Day 11 timers (src/unnamed/part_000)
VARIABLES
    active,     \* active[t]: the interval t is registered and not cleared
    timeouts,   \* the setTimeout callbacks that have not run yet
    cdCount,    \* Q1: let count
    cdRuns,     \* Q1: runs of the countdown callback
    cdLog,      \* Q1: the lines the countdown callback logged
    ctrN,       \* Q4: let n
    ctrLog,     \* Q4: the lines the counter callback logged
    shown,      \* Q5: let shown
    lastQuote   \* Q5: index of the quote logged last (0: none yet)

timerVars ==
    <<active, timeouts, cdCount, cdRuns, cdLog, ctrN, ctrLog, shown, lastQuote>>

vars == <<retryVars, closureVars, timerVars>>

\* ---- values -------------------------------------------------------------
Pending == [state |-> "pending", type |-> "none"]
Fulfilled(d) == [state |-> "fulfilled", type |-> "data", data |-> d]
Undefined == [state |-> "fulfilled", type |-> "undefined"]

\* a rejection that reports the attempts actually made instead of `retries`
PromiseReasonCounted(r, msg) ==
    [state |-> "rejected", type |-> "string", prefix |-> "X ",
     attemptsMade |-> attempt["promise"], lastError |-> msg]

\* reject(`X Failed after ${retries} retries: ${error.message}`): a string
PromiseReason(r, msg) ==
    [state |-> "rejected", type |-> "string", prefix |-> "X ",
     attemptsMade |-> r, lastError |-> msg]

\* a catch block that keeps the first failure it saw instead of the current one
AsyncReasonFirst(r, msg) ==
    [state |-> "rejected", type |-> "Error", prefix |-> "",
     attemptsMade |-> r,
     lastError |-> IF Len(hist["async"]) >= 1
                   THEN hist["async"][1].detail ELSE msg]

\* throw new Error(`Failed after ${retries} retries: ${error.message}`)
AsyncReason(r, msg) ==
    [state |-> "rejected", type |-> "Error", prefix |-> "",
     attemptsMade |-> r, lastError |-> msg]

\* ---- slips of the comparisons below --------------------------------------
\* `attempt <= retries` in the catch handler: one attempt too many
RetryCondOffByOne(a, r) == a <= r
\* `attempt === retries + 1`: the last attempt is not recognised
IsLastAttemptLate(a, r) == a = r + 1

\* `attempt + 1 === retries`: gives up one attempt early
IsLastAttemptEarly(a, r) == a + 1 = r
\* `attempt < retries` in the for statement: the last attempt is never made
LoopCondStrict(a, r) == a < r

\* a do-while shaped loop: the first attempt is made whatever `retries` is
LoopCondAtLeastOnce(a, r) == a = 1 \/ a <= r

\* ---- the three comparisons of the code ----------------------------------
\* if (attempt < retries)            promise version, catch handler
RetryCond(a, r) == a < r
\* if (attempt === retries) throw    async version, catch block
IsLastAttempt(a, r) == a = r
\* attempt <= retries                async version, loop condition
LoopCond(a, r) == a <= r

\* the in-flight fetches of i once the current attempt's fetch has settled
Settled(i) == pending[i] \ {attempt[i]}

\* the two retryFetch invocations before they are called
RetryInit ==
    /\ retries \in [Inv -> Retries]
    /\ pc = [i \in Inv |-> "init"]
    /\ attempt = [i \in Inv |-> 0]
    /\ calls = [i \in Inv |-> <<>>]
    /\ pending = [i \in Inv |-> {}]
    /\ hist = [i \in Inv |-> <<>>]
    /\ result = [i \in Inv |-> Pending]
    /\ settles = [i \in Inv |-> 0]

\* ---- the closures -------------------------------------------------------
Counters == {"c1", "c2"}
MaxArgs == (-1)..(MaxCalls - 2)
Initials == {0, 5}
Steps == {-1, 1, 2}
\* what the fn given to useOnce does when invoked
FnOutcomes == {"value", "undefined", "throw"}

\* the closures right after their factories returned, for given arguments
ClosuresCreated(max, initial, step) ==
    /\ maxArg = max
    /\ maxCount = 0
    /\ maxRets = <<>>
    /\ cnt = [c \in Counters |-> 0]
    /\ rets = [c \in Counters |-> <<>>]
    /\ ucInitial = initial
    /\ ucStep = step
    /\ ucCount = initial
    /\ ucOps = <<>>
    /\ called = FALSE
    /\ fnRuns = 0
    /\ onceRets = <<>>

\* createMaxCounter(3), useCounter(5, 2): the arguments the script passes
ClosuresAsScripted == ClosuresCreated(3, 5, 2)

\* ---- the timers ---------------------------------------------------------
Intervals == {"example", "countdown", "counter", "quote"}
Timeouts == {"example", "alert", "hello", "how", "goodbye"}
CountFrom == 10
CounterFrom == 1
CounterLast == 5
QuotesToShow == 5
NumQuotes == 5
TimesUp == "Time's up!"

\* the state the synchronous part of the script leaves: every timer is
\* registered, and the example interval is cleared again (line 34)
TimerInit ==
    /\ active = [t \in Intervals |-> t # "example"]
    /\ timeouts = Timeouts
    /\ cdCount = CountFrom
    /\ cdRuns = 0
    /\ cdLog = <<>>
    /\ ctrN = CounterFrom
    /\ ctrLog = <<>>
    /\ shown = 0
    /\ lastQuote = 0

Init ==
    /\ RetryInit
    /\ ClosuresAsScripted
    /\ TimerInit

\* ---- slips of the handlers below -----------------------------------------
\* the attempts are started without waiting for the previous one to settle
AttemptFetchEager(i, n) ==
    LET last == IF retries[i] > n THEN retries[i] ELSE n IN
    /\ attempt' = [attempt EXCEPT ![i] = n]
    /\ calls' = [calls EXCEPT ![i] = @ \o [k \in 1..(last - n + 1) |-> n + k - 1]]
    /\ pending' = [pending EXCEPT ![i] = Settled(i) \cup n..last]
    /\ pc' = [pc EXCEPT ![i] = "fetching"]
    /\ UNCHANGED <<result, settles>>

\* the attempt counter kept in one variable that all invocations share
AttemptFetchShared(i, n) ==
    /\ attempt' = [k \in Inv |-> n]
    /\ calls' = [calls EXCEPT ![i] = Append(@, n)]
    /\ pending' = [pending EXCEPT ![i] = Settled(i) \cup {n}]
    /\ pc' = [pc EXCEPT ![i] = "fetching"]
    /\ UNCHANGED <<result, settles>>

\* ---- fragments of the handlers ------------------------------------------
\* fetch(url) for attempt n: one remote call goes out, the caller suspends
AttemptFetch(i, n) ==
    /\ attempt' = [attempt EXCEPT ![i] = n]
    /\ calls' = [calls EXCEPT ![i] = Append(@, n)]
    /\ pending' = [pending EXCEPT ![i] = Settled(i) \cup {n}]
    /\ pc' = [pc EXCEPT ![i] = "fetching"]
    /\ UNCHANGED <<result, settles>>

\* resolve(v) / reject(v) / return v / throw v: the first one settles the
\* returned promise, a later one has no effect on it
Settle(i, v) ==
    /\ result' = [result EXCEPT ![i] = IF @ = Pending THEN v ELSE @]
    /\ settles' = [settles EXCEPT ![i] = @ + 1]
    /\ pending' = [pending EXCEPT ![i] = Settled(i)]
    /\ pc' = [pc EXCEPT ![i] = "done"]
    /\ UNCHANGED <<attempt, calls>>

\* a catch handler that rejects on every failure, whatever the attempt
PromiseCatchSurfaces(i, msg) == Settle(i, PromiseReason(retries[i], msg))

\* .catch(error => ...) of attemptFetch
PromiseCatch(i, msg) ==
    IF RetryCond(attempt[i], retries[i])
    THEN AttemptFetch(i, attempt[i] + 1)
    ELSE Settle(i, PromiseReason(retries[i], msg))

\* the for statement from its condition on: next iteration or fall through
AsyncLoop(i, n) ==
    IF LoopCond(n, retries[i])
    THEN AttemptFetch(i, n)
    ELSE Settle(i, Undefined)

\* catch (error) {...} followed by attempt++ and the loop condition
AsyncCatch(i, msg) ==
    IF IsLastAttempt(attempt[i], retries[i])
    THEN Settle(i, AsyncReason(retries[i], msg))
    ELSE AsyncLoop(i, attempt[i] + 1)

Catch(i, msg) ==
    IF i = "promise" THEN PromiseCatch(i, msg) ELSE AsyncCatch(i, msg)

\* an unsuccessful status ends the sequence at once, without a retry
OnBadStatusFailFast(i) ==
    Settle(i, IF i = "promise" THEN PromiseReason(retries[i], BadResponse)
              ELSE AsyncReason(retries[i], BadResponse))

\* if (!response.ok) throw new Error("Bad response."): control goes to the
\* catch handler with that error
OnBadStatus(i) == Catch(i, BadResponse)

\* a success handler that never settles the returned promise
PromiseResolveDropped(i, d) ==
    /\ pc' = [pc EXCEPT ![i] = "lost"]
    /\ pending' = [pending EXCEPT ![i] = Settled(i)]
    /\ UNCHANGED <<attempt, calls, result, settles>>

\* .then(data => resolve(data))
PromiseResolve(i, d) == Settle(i, Fulfilled(d))

\* the payload is obtained but the loop is not left
AsyncReturnNoExit(i, d) == AsyncLoop(i, attempt[i] + 1)

\* return data; // success
AsyncReturn(i, d) == Settle(i, Fulfilled(d))

OnData(i, d) ==
    IF i = "promise" THEN PromiseResolve(i, d) ELSE AsyncReturn(i, d)

\* ---- actions ------------------------------------------------------------
\* retryFetch(url, retries) is called and runs to its first suspension
Invoke(i) ==
    /\ pc[i] = "init"
    /\ IF i = "promise" THEN AttemptFetch(i, 1) ELSE AsyncLoop(i, 1)
    /\ UNCHANGED <<retries, hist>>

\* the fetch of the current attempt settles and its continuation runs
FetchSettle(i, o) ==
    /\ pc[i] = "fetching"
    /\ IF o.kind = "transport"
       THEN /\ hist' = [hist EXCEPT ![i] =
                            Append(@, [kind |-> "transport", detail |-> o.msg])]
            /\ Catch(i, o.msg)
       ELSE IF ~o.ok
       THEN /\ hist' = [hist EXCEPT ![i] =
                            Append(@, [kind |-> "status", detail |-> BadResponse])]
            /\ OnBadStatus(i)
       ELSE /\ pc' = [pc EXCEPT ![i] = "decoding"]
            /\ pending' = [pending EXCEPT ![i] = Settled(i)]
            /\ UNCHANGED <<attempt, calls, hist, result, settles>>
    /\ UNCHANGED retries

\* a body-decoding failure that escapes the catch handler and reaches the
\* caller as an error of its own
JsonSettleUncaught(i, o) ==
    /\ pc[i] = "decoding"
    /\ hist' = [hist EXCEPT ![i] = Append(@, o)]
    /\ IF o.kind = "data"
       THEN OnData(i, o.detail)
       ELSE Settle(i, [state |-> "rejected", type |-> "SyntaxError",
                       prefix |-> "", attemptsMade |-> attempt[i],
                       lastError |-> o.detail])
    /\ UNCHANGED retries

\* response.json() of the current attempt settles and its continuation runs
JsonSettle(i, o) ==
    /\ pc[i] = "decoding"
    /\ hist' = [hist EXCEPT ![i] = Append(@, o)]
    /\ IF o.kind = "data"
       THEN OnData(i, o.detail)
       ELSE Catch(i, o.detail)
    /\ UNCHANGED retries

Next ==
    \/ \E i \in Inv :
          Invoke(i) /\ UNCHANGED <<closureVars, timerVars>>
    \/ \E i \in Inv, o \in FetchOutcomes :
          FetchSettle(i, o) /\ UNCHANGED <<closureVars, timerVars>>
    \/ \E i \in Inv, o \in JsonOutcomes :
          JsonSettle(i, o) /\ UNCHANGED <<closureVars, timerVars>>

Spec == Init /\ [][Next]_vars

\* Every outstanding fetch and every outstanding body read settles: the
\* collaborator answers each call, successfully or not.
FairSpec ==
    /\ Spec
    /\ \A i \in Inv :
          /\ WF_vars(/\ \E o \in FetchOutcomes : FetchSettle(i, o)
                     /\ UNCHANGED <<closureVars, timerVars>>)
          /\ WF_vars(/\ \E o \in JsonOutcomes : JsonSettle(i, o)
                     /\ UNCHANGED <<closureVars, timerVars>>)

\* ---- day15-closures-&-scope: calls of the returned functions ------------
CallsMade ==
    Len(maxRets) + Len(rets["c1"]) + Len(rets["c2"]) + Len(ucOps)
        + Len(onceRets)

\* `if (count <= max) count++`: the bound is passed by one
MaxCounterStepPast(count, max) == IF count <= max THEN count + 1 ELSE count

\* if (count < max) count++;
MaxCounterStep(count, max) == IF count < max THEN count + 1 ELSE count

\* the function createMaxCounter(max) returned is called
MaxCounterCall ==
    /\ CallsMade < MaxCalls
    /\ maxCount' = MaxCounterStep(maxCount, maxArg)
    /\ maxRets' = Append(maxRets, maxCount')
    /\ UNCHANGED <<maxArg, cnt, rets, ucInitial, ucStep, ucCount, ucOps,
                   called, fnRuns, onceRets>>

\* `count` declared outside createCounter: one variable for every counter
CounterCallShared(c) ==
    /\ CallsMade < MaxCalls
    /\ cnt' = [k \in Counters |-> cnt[c] + 1]
    /\ rets' = [rets EXCEPT ![c] = Append(@, cnt'[c])]
    /\ UNCHANGED <<maxArg, maxCount, maxRets, ucInitial, ucStep, ucCount,
                   ucOps, called, fnRuns, onceRets>>

\* the function a createCounter() call returned is called: count++; return
CounterCall(c) ==
    /\ CallsMade < MaxCalls
    /\ cnt' = [cnt EXCEPT ![c] = @ + 1]
    /\ rets' = [rets EXCEPT ![c] = Append(@, cnt'[c])]
    /\ UNCHANGED <<maxArg, maxCount, maxRets, ucInitial, ucStep, ucCount,
                   ucOps, called, fnRuns, onceRets>>

\* the four functions useCounter(initial, step) returned
UcGet == ucCount

UcCall(op, value) ==
    /\ CallsMade < MaxCalls
    /\ ucCount' = value
    /\ ucOps' = Append(ucOps, op)
    /\ UNCHANGED <<maxArg, maxCount, maxRets, cnt, rets, ucInitial, ucStep,
                   called, fnRuns, onceRets>>

\* () => (count += step)
UcInc == UcCall("inc", ucCount + ucStep)

\* () => (count -= step)
UcDec == UcCall("dec", ucCount - ucStep)

\* `count = 0`, as in createResettableCounter, instead of `count = initial`
UcResetToZero == UcCall("reset", 0)

\* () => (count = initial)
UcReset == UcCall("reset", ucInitial)

\* a wrapper that never sets `called`
OnceCallNoFlag(o) ==
    /\ CallsMade < MaxCalls
    /\ fnRuns' = fnRuns + 1
    /\ onceRets' = Append(onceRets, o)
    /\ UNCHANGED <<maxArg, maxCount, maxRets, cnt, rets, ucInitial, ucStep,
                   ucCount, ucOps, called>>

\* the function useOnce(fn) returned is called; o is what fn does if invoked
OnceCall(o) ==
    /\ CallsMade < MaxCalls
    /\ IF ~called
       THEN /\ called' = TRUE
            /\ fnRuns' = fnRuns + 1
            /\ onceRets' = Append(onceRets, o)
       ELSE /\ onceRets' = Append(onceRets, "undefined")
            /\ UNCHANGED <<called, fnRuns>>
    /\ UNCHANGED <<maxArg, maxCount, maxRets, cnt, rets, ucInitial, ucStep,
                   ucCount, ucOps>>

ClosureNext ==
    \/ MaxCounterCall /\ UNCHANGED <<retryVars, timerVars>>
    \/ \E c \in Counters : CounterCall(c) /\ UNCHANGED <<retryVars, timerVars>>
    \/ UcInc /\ UNCHANGED <<retryVars, timerVars>>
    \/ UcDec /\ UNCHANGED <<retryVars, timerVars>>
    \/ UcReset /\ UNCHANGED <<retryVars, timerVars>>
    \/ \E o \in FnOutcomes : OnceCall(o) /\ UNCHANGED <<retryVars, timerVars>>

\* the retryFetch calls of the script, retryFetch(url, 3), not yet made
RetryAsScripted == RetryInit /\ retries = [i \in Inv |-> 3]

ClosureInit ==
    /\ RetryAsScripted
    /\ TimerInit
    /\ \E max \in MaxArgs, initial \in Initials, step \in Steps :
          ClosuresCreated(max, initial, step)

ClosureSpec == ClosureInit /\ [][ClosureNext]_vars

\* ---- Day 11 timers: the callbacks ----------------------------------------
\* console.log(x) of a number prints its decimal digits
Line(x) == ToString(x)

\* `if (count <= 0)`: the countdown stops before it logs 0
CountdownOverEarly(c) == c <= 0

\* if (count < 0)
CountdownOver(c) == c < 0

\* Q1: one run of the countdown callback
CountdownTick ==
    /\ active["countdown"]
    /\ cdRuns' = cdRuns + 1
    /\ cdCount' = cdCount - 1
    /\ IF CountdownOver(cdCount')
       THEN /\ active' = [active EXCEPT !["countdown"] = FALSE]
            /\ cdLog' = cdLog \o <<Line(cdCount), TimesUp>>
       ELSE /\ cdLog' = Append(cdLog, Line(cdCount))
            /\ UNCHANGED active
    /\ UNCHANGED <<timeouts, ctrN, ctrLog, shown, lastQuote>>

\* `if (n >= 5)`: the counter stops before it logs 5
CounterOverEarly(k) == k >= CounterLast

\* if (n > 5)
CounterOver(k) == k > CounterLast

\* Q4: one run of the auto-stop counter callback
CounterTick ==
    /\ active["counter"]
    /\ ctrLog' = Append(ctrLog, Line(ctrN))
    /\ ctrN' = ctrN + 1
    /\ active' = [active EXCEPT !["counter"] = ~CounterOver(ctrN')]
    /\ UNCHANGED <<timeouts, cdCount, cdRuns, cdLog, shown, lastQuote>>

\* Q5: one run of the quote callback; q is the index Math.random() picks
QuoteTick(q) ==
    /\ active["quote"]
    /\ lastQuote' = q
    /\ shown' = shown + 1
    /\ active' = [active EXCEPT !["quote"] = ~(shown' >= QuotesToShow)]
    /\ UNCHANGED <<timeouts, cdCount, cdRuns, cdLog, ctrN, ctrLog>>

\* a setTimeout callback runs, once; none of them touches the script's state
TimeoutFire(t) ==
    /\ t \in timeouts
    /\ timeouts' = timeouts \ {t}
    /\ UNCHANGED <<active, cdCount, cdRuns, cdLog, ctrN, ctrLog, shown, lastQuote>>

TimerNext ==
    \/ CountdownTick /\ UNCHANGED <<retryVars, closureVars>>
    \/ CounterTick /\ UNCHANGED <<retryVars, closureVars>>
    \/ \E q \in 1..NumQuotes : QuoteTick(q) /\ UNCHANGED <<retryVars, closureVars>>
    \/ \E t \in Timeouts : TimeoutFire(t) /\ UNCHANGED <<retryVars, closureVars>>

TimerSpecInit ==
    /\ RetryAsScripted
    /\ ClosuresAsScripted
    /\ TimerInit

\* the host runs the callback of every timer that stays registered
TimerSpec ==
    /\ TimerSpecInit
    /\ [][TimerNext]_vars
    /\ WF_vars(CountdownTick /\ UNCHANGED <<retryVars, closureVars>>)
    /\ WF_vars(CounterTick /\ UNCHANGED <<retryVars, closureVars>>)
    /\ WF_vars(/\ \E q \in 1..NumQuotes : QuoteTick(q)
               /\ UNCHANGED <<retryVars, closureVars>>)
    /\ \A t \in Timeouts :
          WF_vars(TimeoutFire(t) /\ UNCHANGED <<retryVars, closureVars>>)

TypeOK ==
    /\ retries \in [Inv -> Retries]
    /\ pc \in [Inv -> {"init", "fetching", "decoding", "done"}]
    /\ attempt \in [Inv -> 0..(MaxRetries + 1)]
    /\ \A i \in Inv : pending[i] \subseteq 1..(MaxRetries + 1)
    /\ settles \in [Inv -> 0..1]

\* ---- vocabulary of the properties ---------------------------------------
IsFailure(o) == o.kind # "data"
AllFailed(h) == \A k \in 1..Len(h) : IsFailure(h[k])
NumFailed(h) == Cardinality({k \in 1..Len(h) : IsFailure(h[k])})
UpTo(n) == [k \in 1..n |-> k]
Distinct(h) == \A j, k \in 1..Len(h) : j # k => h[j].detail # h[k].detail

\* C1: with retries >= 1, when attempts 1..k-1 failed and attempt k
\* succeeded, the invocation is fulfilled with the payload of attempt k and
\* the remote calls made are exactly those of attempts 1..k, in every later
\* state too (no call follows the success).
C1_SuccessShortCircuits ==
    \A i \in Inv : \A k \in 1..Len(hist[i]) :
        (retries[i] >= 1 /\ hist[i][k].kind = "data")
            => /\ k = Len(hist[i])
               /\ k <= retries[i]
               /\ AllFailed(SubSeq(hist[i], 1, k - 1))
               /\ result[i] = Fulfilled(hist[i][k].detail)
               /\ calls[i] = UpTo(k)
               /\ pc[i] = "done"

C1_Witness ==
    \E i \in Inv :
        /\ retries[i] = 3
        /\ Len(hist[i]) = 2
        /\ IsFailure(hist[i][1])
        /\ hist[i][2].kind = "data"
        /\ result[i] = Fulfilled(hist[i][2].detail)

\* C2: with retries = N >= 1, an invocation all of whose attempts failed has
\* made exactly N remote calls and is rejected with a failure that reports N
\* as the attempt count.
C2_ExhaustionAfterN ==
    \A i \in Inv :
        (retries[i] >= 1 /\ pc[i] = "done" /\ AllFailed(hist[i]))
            => /\ calls[i] = UpTo(retries[i])
               /\ Len(hist[i]) = retries[i]
               /\ result[i].state = "rejected"
               /\ result[i].attemptsMade = retries[i]

C2_Witness ==
    \A i \in Inv :
        /\ retries[i] = 3
        /\ pc[i] = "done"
        /\ AllFailed(hist[i])
        /\ result[i].state = "rejected"

\* C3: with retries = N >= 1, the failure detail carried by the terminal
\* failure is that of attempt N; when the N causes are distinct it is the
\* detail of no earlier attempt.
C3_LastErrorIsFinal ==
    \A i \in Inv :
        (retries[i] >= 1 /\ result[i].state = "rejected")
            => /\ Len(hist[i]) = retries[i]
               /\ result[i].lastError = hist[i][retries[i]].detail
               /\ Distinct(hist[i]) =>
                      \A k \in 1..(retries[i] - 1) :
                          result[i].lastError # hist[i][k].detail

C3_Witness ==
    \A i \in Inv :
        /\ retries[i] = 3
        /\ result[i].state = "rejected"
        /\ Distinct(hist[i])
        /\ hist[i][3].kind # hist[i][1].kind

\* C4: with retries = 1 exactly one remote call is made, and the outcome of
\* that call settles the invocation: fulfilled with the payload on success,
\* rejected on failure.
C4_SingleAttempt ==
    \A i \in Inv :
        retries[i] = 1
            => /\ Len(calls[i]) <= 1
               /\ pc[i] # "init" => calls[i] = <<1>>
               /\ Len(hist[i]) <= 1
               /\ Len(hist[i]) = 1 =>
                      /\ pc[i] = "done"
                      /\ IF IsFailure(hist[i][1])
                         THEN result[i].state = "rejected"
                         ELSE result[i] = Fulfilled(hist[i][1].detail)

C4_Witness ==
    /\ \A i \in Inv : retries[i] = 1 /\ pc[i] = "done" /\ calls[i] = <<1>>
    /\ result["promise"].state = "rejected"
    /\ result["async"].state = "fulfilled"

\* C5: within one invocation at most one fetch is in flight, it is the fetch
\* of the current attempt, and attempt n+1 is called only when the outcome of
\* attempt n is known (fetch and body decoding both settled).
C5_SequentialAttempts ==
    \A i \in Inv :
        /\ Cardinality(pending[i]) <= 1
        /\ pending[i] # {} <=> pc[i] = "fetching"
        /\ pc[i] = "fetching" => pending[i] = {attempt[i]}
        /\ pc[i] \in {"fetching", "decoding"} => Len(calls[i]) = Len(hist[i]) + 1
        /\ Len(calls[i]) <= Len(hist[i]) + 1
        /\ calls[i] = UpTo(Len(calls[i]))

C5_Witness ==
    \A i \in Inv :
        /\ pending[i] = {2}
        /\ Len(hist[i]) = 1
        /\ calls[i] = <<1, 2>>

\* C6: with retries >= 1 the returned promise is settled by exactly one
\* resolve/reject/return/throw, at the end of the sequence, with a payload or
\* with the terminal failure; while fewer than `retries` attempts have
\* failed the promise is not rejected.
C6_AllOrNothing ==
    \A i \in Inv :
        retries[i] >= 1
            => /\ settles[i] <= 1
               /\ pc[i] = "done" <=> settles[i] = 1
               /\ pc[i] # "done" <=> result[i] = Pending
               /\ result[i].state = "fulfilled" => result[i].type = "data"
               /\ NumFailed(hist[i]) < retries[i] => result[i].state # "rejected"

C6_Witness ==
    \A i \in Inv :
        /\ retries[i] = 3
        /\ NumFailed(hist[i]) = 2
        /\ pc[i] = "fetching"
        /\ result[i] = Pending

\* C7: with retries >= 1, whenever the invocation is rejected exactly
\* `retries` remote calls were made, each of them failed, and none succeeded.
C7_ExhaustedOnlyAfterRetries ==
    \A i \in Inv :
        (retries[i] >= 1 /\ result[i].state = "rejected")
            => /\ Len(calls[i]) = retries[i]
               /\ Len(hist[i]) = retries[i]
               /\ AllFailed(hist[i])
               /\ attempt[i] = retries[i]

C7_Witness ==
    \E i \in Inv :
        /\ retries[i] = 2
        /\ result[i].state = "rejected"
        /\ Len(calls[i]) = 2

\* C8: with retries >= 1, after the call, the number of remote calls made and
\* the attempt counter are a function of the number of failed attempts and of
\* `retries` alone: every failure, of whatever kind, counts for one, and the
\* next attempt is started exactly when fewer than `retries` have failed.
C8_UniformFailures ==
    \A i \in Inv :
        (retries[i] >= 1 /\ pc[i] # "init")
            => LET f == NumFailed(hist[i]) IN
               /\ f <= retries[i]
               /\ Len(calls[i]) = IF f < retries[i] THEN f + 1 ELSE retries[i]
               /\ attempt[i] = Len(calls[i])

C8_Witness ==
    /\ \A i \in Inv :
          /\ retries[i] = 3
          /\ Len(hist[i]) = 2
          /\ {hist[i][1].kind, hist[i][2].kind} = {"transport", "status"}
          /\ Len(calls[i]) = 3
    /\ hist["promise"][1].kind # hist["async"][1].kind

\* C9: with retries >= 1 and every remote call settling, an invocation that
\* was called eventually reaches its terminal state, fulfilled or rejected,
\* and it never makes more than `retries` remote calls on the way.
C9_RunsToCompletion ==
    \A i \in Inv :
        /\ (pc[i] # "init" /\ retries[i] >= 1)
               ~> (pc[i] = "done" /\ result[i].state \in {"fulfilled", "rejected"})
        /\ [](retries[i] >= 1 => Len(calls[i]) <= retries[i])

C9_Witness ==
    /\ \A i \in Inv :
          /\ retries[i] = 3
          /\ pc[i] = "done"
          /\ Len(calls[i]) = 3
    /\ result["promise"].state = "fulfilled"
    /\ result["async"].state = "rejected"

\* what the caller can observe of a settled or unsettled result: the payload,
\* or the attempt count and the last cause of the failure
Observed(v) ==
    IF v.state = "rejected"
    THEN <<"rejected", v.attemptsMade, v.lastError>>
    ELSE IF v.state = "fulfilled"
    THEN <<"fulfilled", v.type, IF v.type = "data" THEN v.data ELSE "">>
    ELSE <<"pending">>

\* C10: called with the same retries >= 1 and given the same outcomes of
\* their attempts, the promise version and the async version have made the
\* same remote calls in the same order, stand at the same attempt, and are
\* both unfinished or both finished with the same payload or with the same
\* attempt count and last cause.
C10_VersionsAgree ==
    (/\ retries["promise"] = retries["async"]
     /\ retries["promise"] >= 1
     /\ pc["promise"] # "init"
     /\ pc["async"] # "init"
     /\ hist["promise"] = hist["async"])
        => /\ calls["promise"] = calls["async"]
           /\ attempt["promise"] = attempt["async"]
           /\ pc["promise"] = "done" <=> pc["async"] = "done"
           /\ Observed(result["promise"]) = Observed(result["async"])

C10_Witness ==
    /\ retries["promise"] = 3
    /\ retries["async"] = 3
    /\ hist["promise"] = hist["async"]
    /\ Len(hist["async"]) = 3
    /\ {hist["async"][k].kind : k \in 1..3} = {"transport", "status", "decode"}
    /\ result["promise"].state = "rejected"
    /\ result["async"].state = "rejected"

\* ---- one invocation run alone -------------------------------------------
\* the attempt counter, the number of remote calls and the returned promise
\* of routine i called alone with retries r, once its attempts have had the
\* outcomes h
AloneStart(i, r) ==
    IF i = "promise" \/ LoopCond(1, r)
    THEN [attempt |-> 1, ncalls |-> 1, result |-> Pending]
    ELSE [attempt |-> 0, ncalls |-> 0, result |-> Undefined]

AloneRetry(s) ==
    [attempt |-> s.attempt + 1, ncalls |-> s.ncalls + 1, result |-> Pending]

AloneStep(i, r, s, o) ==
    IF s.result # Pending THEN s
    ELSE IF o.kind = "data" THEN [s EXCEPT !.result = Fulfilled(o.detail)]
    ELSE IF i = "promise"
    THEN IF RetryCond(s.attempt, r)
         THEN AloneRetry(s)
         ELSE [s EXCEPT !.result = PromiseReason(r, o.detail)]
    ELSE IF IsLastAttempt(s.attempt, r)
         THEN [s EXCEPT !.result = AsyncReason(r, o.detail)]
         ELSE IF LoopCond(s.attempt + 1, r)
              THEN AloneRetry(s)
              ELSE [s EXCEPT !.result = Undefined]

RECURSIVE Alone(_, _, _)
Alone(i, r, h) ==
    IF h = <<>> THEN AloneStart(i, r)
    ELSE AloneStep(i, r, Alone(i, r, SubSeq(h, 1, Len(h) - 1)), h[Len(h)])

\* everything one invocation owns
StateOf(i) ==
    <<retries[i], pc[i], attempt[i], calls[i], pending[i], hist[i],
      result[i], settles[i]>>

\* C11: two invocations running concurrently are independent: in every
\* interleaving each one's attempt counter, number of remote calls and
\* outcome are those of the same routine run alone on the same attempt
\* outcomes, and a step that changes one invocation's state leaves the
\* other's unchanged.
C11_InvocationsIndependent ==
    /\ [](\A i \in Inv :
            pc[i] # "init" =>
                LET a == Alone(i, retries[i], hist[i]) IN
                /\ attempt[i] = a.attempt
                /\ Len(calls[i]) = a.ncalls
                /\ result[i] = a.result)
    /\ [][\A i, j \in Inv :
            (i # j /\ StateOf(i)' # StateOf(i)) => StateOf(j)' = StateOf(j)]_vars

C11_Witness ==
    /\ retries["promise"] = 3
    /\ retries["async"] = 2
    /\ pc["promise"] = "decoding"
    /\ attempt["promise"] = 3
    /\ result["async"].state = "rejected"
    /\ Len(calls["async"]) = 2

\* C12: with retries >= 1 the attempt counter of an invocation that was
\* called lies in 1..retries; it is set to 1 by the call and afterwards only
\* changes by +1, in the step in which an attempt failed.
C12_AttemptCounter ==
    /\ [](\A i \in Inv :
            (retries[i] >= 1 /\ pc[i] # "init")
                => (1 <= attempt[i] /\ attempt[i] <= retries[i]))
    /\ [][\A i \in Inv :
            (retries[i] >= 1 /\ attempt[i]' # attempt[i]) =>
                \/ pc[i] = "init" /\ attempt[i]' = 1
                \/ /\ attempt[i]' = attempt[i] + 1
                   /\ Len(hist[i]') = Len(hist[i]) + 1
                   /\ IsFailure(hist[i]'[Len(hist[i]')])
                   /\ result[i]' = Pending]_vars

C12_Witness ==
    \A i \in Inv :
        /\ retries[i] = 3
        /\ attempt[i] = 3
        /\ pc[i] = "fetching"
        /\ NumFailed(hist[i]) = 2

\* the terminal failure routine i raises with retries r and last cause msg
Exhausted(i, r, msg) ==
    IF i = "promise" THEN PromiseReason(r, msg) ELSE AsyncReason(r, msg)

\* C19: with retries >= 1, in both versions an attempt whose body decoding
\* failed is a failed attempt like any other: it is one of the `retries`
\* attempts, before the last attempt it leads to the next remote call and
\* leaves the promise unsettled, and on the last attempt it leads to the
\* usual terminal failure carrying its message; the promise is never
\* fulfilled by it.
C19_DecodeFailureRetried ==
    \A i \in Inv : \A k \in 1..Len(hist[i]) :
        (retries[i] >= 1 /\ hist[i][k].kind = "decode")
            => /\ k <= retries[i]
               /\ Len(calls[i]) >= (IF k < retries[i] THEN k + 1 ELSE k)
               /\ k = Len(hist[i]) =>
                      IF k < retries[i]
                      THEN /\ pc[i] \in {"fetching", "decoding"}
                           /\ attempt[i] = k + 1
                           /\ result[i] = Pending
                      ELSE /\ pc[i] = "done"
                           /\ result[i] =
                                  Exhausted(i, retries[i], hist[i][k].detail)

C19_Witness ==
    \A i \in Inv :
        /\ retries[i] = 2
        /\ Len(hist[i]) = 2
        /\ hist[i][1].kind = "decode"
        /\ hist[i][2].kind = "decode"
        /\ result[i].state = "rejected"

\* C20: the async version called with retries <= 0 makes no remote call and
\* its promise is fulfilled with undefined: no payload, no failure.
C20_AsyncNoAttempts ==
    retries["async"] <= 0
        => /\ calls["async"] = <<>>
           /\ pending["async"] = {}
           /\ hist["async"] = <<>>
           /\ pc["async"] \in {"init", "done"}
           /\ pc["async"] = "done" => result["async"] = Undefined
           /\ result["async"] \in {Pending, Undefined}

C20_Witness ==
    /\ retries["async"] = 0
    /\ pc["async"] = "done"
    /\ result["async"] = Undefined
    /\ calls["async"] = <<>>

\* ---- the closure exercises ----------------------------------------------
Min(a, b) == IF a < b THEN a ELSE b

C14_OnceOnly ==
    /\ fnRuns = (IF Len(onceRets) >= 1 THEN 1 ELSE 0)
    /\ called <=> Len(onceRets) >= 1
    /\ \A k \in 2..Len(onceRets) : onceRets[k] = "undefined"

C14_Witness ==
    /\ Len(onceRets) = 3
    /\ onceRets[1] = "value"
    /\ fnRuns = 1

\* C15: the counters made by separate createCounter() calls are independent:
\* the n-th call of a counter returned n whatever calls of the other counter
\* came in between, and a call of one counter leaves the other's count
\* unchanged.
C15_CountersIndependent ==
    /\ [](\A c \in Counters :
            /\ rets[c] = UpTo(Len(rets[c]))
            /\ cnt[c] = Len(rets[c]))
    /\ [][\A c, d \in Counters :
            (c # d /\ rets[c]' # rets[c]) =>
                (cnt[d]' = cnt[d] /\ rets[d]' = rets[d])]_vars

C15_Witness ==
    /\ rets["c1"] = <<1, 2, 3>>
    /\ rets["c2"] = <<1>>

\* inc calls minus dec calls among the calls made after the last reset
RECURSIVE NetSinceReset(_)
NetSinceReset(ops) ==
    IF ops = <<>> THEN 0
    ELSE LET last == ops[Len(ops)]
             before == SubSeq(ops, 1, Len(ops) - 1) IN
         IF last = "reset" THEN 0
         ELSE IF last = "inc" THEN NetSinceReset(before) + 1
         ELSE NetSinceReset(before) - 1

\* C16: after any sequence of inc/dec/reset calls get() equals
\* initial + step * (inc calls - dec calls since the last reset); right after
\* a reset it equals initial.
C16_UseCounterValue ==
    /\ UcGet = ucInitial + ucStep * NetSinceReset(ucOps)
    /\ (ucOps # <<>> /\ ucOps[Len(ucOps)] = "reset") => UcGet = ucInitial

C16_Witness ==
    /\ ucInitial = 5
    /\ ucStep = 2
    /\ ucOps = <<"inc", "inc", "reset", "dec">>
    /\ UcGet = 3

\* ---- the timers ----------------------------------------------------------
\* C17: the countdown callback logs 10, 9, ..., 0 in that order, one number
\* per run, never a negative one; the run that logs 0 also logs "Time's up!",
\* once, and clears the interval; the callback runs 11 times and no more.
C17_Countdown ==
    /\ [](/\ cdRuns <= CountFrom + 1
          /\ cdCount = CountFrom - cdRuns
          /\ \A k \in 1..cdRuns :
                 /\ CountFrom - (k - 1) >= 0
                 /\ cdLog[k] = Line(CountFrom - (k - 1))
          /\ active["countdown"] <=> cdRuns < CountFrom + 1
          /\ Len(cdLog) = (IF active["countdown"] THEN cdRuns ELSE cdRuns + 1)
          /\ ~active["countdown"] =>
                 /\ cdLog[cdRuns] = Line(0)
                 /\ cdLog[cdRuns + 1] = TimesUp)
    /\ <>[](cdRuns = CountFrom + 1 /\ ~active["countdown"])

C17_Witness ==
    /\ ~active["countdown"]
    /\ cdRuns = 11
    /\ Len(cdLog) = 12
    /\ cdLog[1] = "10"
    /\ cdLog[11] = "0"
    /\ cdLog[12] = TimesUp

\* C18: the auto-stop counter callback logs 1, 2, 3, 4, 5 in order and then
\* clears its interval: it runs 5 times and no more, whatever the other
\* timers of the script do in between.
C18_AutoStopCounter ==
    /\ [](/\ Len(ctrLog) <= CounterLast
          /\ ctrN = CounterFrom + Len(ctrLog)
          /\ \A k \in 1..Len(ctrLog) : ctrLog[k] = Line(k)
          /\ active["counter"] <=> Len(ctrLog) < CounterLast)
    /\ <>[](Len(ctrLog) = CounterLast /\ ~active["counter"])
    /\ [][ctrLog' # ctrLog =>
            (cdCount' = cdCount /\ shown' = shown /\ timeouts' = timeouts)]_vars

C18_Witness ==
    /\ ctrLog = <<"1", "2", "3", "4", "5">>
    /\ ~active["counter"]
    /\ cdRuns = 2
    /\ shown = 1
    /\ "alert" \notin timeouts
    /\ "goodbye" \in timeouts

\* C21: the promise version makes at least one remote call whatever
\* `retries` is; called with retries <= 0 it makes exactly one, is fulfilled
\* with the payload when that call succeeds, and otherwise is rejected at
\* once with a message that reports `retries`, which is not the number of
\* attempts made (one).
C21_PromiseAlwaysTriesOnce ==
    /\ pc["promise"] # "init" => Len(calls["promise"]) >= 1
    /\ retries["promise"] <= 0 =>
           /\ Len(calls["promise"]) <= 1
           /\ Len(hist["promise"]) <= 1
           /\ pc["promise"] # "init" => calls["promise"] = <<1>>
           /\ Len(hist["promise"]) = 0 => result["promise"] = Pending
           /\ Len(hist["promise"]) = 1 =>
                  /\ pc["promise"] = "done"
                  /\ settles["promise"] = 1
                  /\ IF hist["promise"][1].kind = "data"
                     THEN result["promise"] =
                              Fulfilled(hist["promise"][1].detail)
                     ELSE /\ result["promise"].state = "rejected"
                          /\ result["promise"].type = "string"
                          /\ result["promise"].lastError =
                                 hist["promise"][1].detail
                          /\ result["promise"].attemptsMade =
                                 retries["promise"]
                          /\ result["promise"].attemptsMade #
                                 Len(calls["promise"])

C21_Witness ==
    /\ retries["promise"] = 0
    /\ calls["promise"] = <<1>>
    /\ result["promise"].state = "rejected"
    /\ result["promise"].attemptsMade = 0
====
